---- MODULE Spec2Model ----
(***************************************************************************)
(* The resolver configuration reader (dnsReadConfig, dnsDefaultSearch) and *)
(* the search-list expansion (DnsConfig.nameList) of package dnsconfig.    *)
(* A Go string is a sequence of one-character strings.                     *)
(***************************************************************************)
EXTENDS Integers, Sequences, FiniteSets, TLC

VARIABLES
    defaultNS,   \* the package variable defaultNS: the shared backing array
    hostname,    \* what the getHostname hook returns: [hn, err]
    linesLeft,   \* how many more lines the file being read can hold
    pc,          \* where the caller is
    line,        \* the loop variable of dnsReadConfig: the line last read
    conf,        \* the DnsConfig being built, read or queried
    returned,    \* the records earlier reads returned to their callers
    qname,       \* the argument of nameList
    names,       \* the result of nameList
    dsearch      \* the result of dnsDefaultSearch

vars == <<defaultNS, hostname, linesLeft, pc, line, conf, returned, qname, names, dsearch>>

\* ---------------------------------------------------------------- bounds

MaxLines == 4
ShareLines == 1
MaxReads == 2
MaxSearch == 2
MaxNdots == 2

\* ------------------------------------------------------ program constants

MaxNameLen == 254
MaxServers == 3
MaxNdotsOpt == 15

\* ---------------------------------------------------------------- strings

Dot == "."

UpperCase == <<"A","B","C","D","E","F","G","H","I","J","K","L","M","N","O","P","Q","R","S","T","U","V","W","X","Y","Z">>

LowerCase == <<"a","b","c","d","e","f","g","h","i","j","k","l","m","n","o","p","q","r","s","t","u","v","w","x","y","z">>

lowerASCII(c) ==
    IF \E i \in 1..26 : UpperCase[i] = c
    THEN LowerCase[CHOOSE i \in 1..26 : UpperCase[i] = c]
    ELSE c

stringsHasSuffixFold(s, suffix) ==
    /\ Len(s) >= Len(suffix)
    /\ \A i \in 1..Len(suffix) :
           lowerASCII(s[Len(s) - Len(suffix) + i]) = lowerASCII(suffix[i])

hasPrefix(s, prefix) ==
    Len(s) >= Len(prefix) /\ SubSeq(s, 1, Len(prefix)) = prefix

ensureRooted(s) ==
    IF Len(s) > 0 /\ s[Len(s)] = Dot THEN s ELSE s \o <<Dot>>

stringsCount(s, c) == Cardinality({ i \in 1..Len(s) : s[i] = c })

\* The zero-based index of the first c in s, or -1.
stringsIndexByte(s, c) ==
    IF \E i \in 1..Len(s) : s[i] = c
    THEN (CHOOSE i \in 1..Len(s) : s[i] = c /\ \A j \in 1..(i - 1) : s[j] # c) - 1
    ELSE -1

onionSuffix == <<".","o","n","i","o","n">>

\* ------------------------------------------------------------ DnsConfig

defaultNSInit == << <<"1","2","7",".","0",".","0",".","1",":","5","3">>,
                    <<"[",":",":","1","]",":","5","3">> >>

\* timeout is a time.Duration counted in whole seconds (n * time.Second).
\* A []string: base names the backing array, the package's defaultNS or one of
\* the record's own; elems are the elements of an own array.
Heap(elems) == [base |-> "heap", elems |-> elems]
SharedNS == [base |-> "defaultNS", elems |-> <<>>]

Elems(ns, slice) == IF slice.base = "defaultNS" THEN ns ELSE slice.elems

NoErr == "nil"

newConf == [ servers |-> Heap(<<>>), search |-> <<>>, ndots |-> 1,
             timeout |-> 5, attempts |-> 2, rotate |-> FALSE,
             unknownOpt |-> FALSE, lookup |-> <<>>, err |-> NoErr, mtime |-> 0,
             singleRequest |-> FALSE, useTCP |-> FALSE, trustAD |-> FALSE,
             noReload |-> FALSE ]

\* ------------------------------------------------------ dnsDefaultSearch

\* Mutant: the test that the first dot is not the last character is missing.
dnsDefaultSearchAnyDot(h) ==
    IF h.err # NoErr THEN <<>>
    ELSE LET i == stringsIndexByte(h.hn, Dot) IN
         IF i >= 0
         THEN << ensureRooted(SubSeq(h.hn, i + 2, Len(h.hn))) >>
         ELSE <<>>

dnsDefaultSearch(h) ==
    IF h.err # NoErr THEN <<>>
    ELSE LET i == stringsIndexByte(h.hn, Dot) IN
         IF i >= 0 /\ i < Len(h.hn) - 1
         THEN << ensureRooted(SubSeq(h.hn, i + 2, Len(h.hn))) >>
         ELSE <<>>

\* --------------------------------------------------------------- nameList

avoidDNS(name) ==
    IF name = <<>> THEN TRUE
    ELSE LET n == IF name[Len(name)] = Dot THEN SubSeq(name, 1, Len(name) - 1)
                  ELSE name
         IN  stringsHasSuffixFold(n, onionSuffix)

\* A []string result: nil, or a list.
Nil == [nil |-> TRUE, list |-> <<>>]
List(l) == [nil |-> FALSE, list |-> l]

goAppend(s, x) == List(Append(s.list, x))

\* Mutant: var names []string, nil until something is appended.
nameListMakeNil == Nil

\* names := make([]string, 0, 1+len(conf.Search))
nameListMake == List(<<>>)

\* Mutant: the unsuffixed name is tried first whatever the dot count.
nameListFirstAlways(acc, hasNdots, name) ==
    IF ~avoidDNS(name) THEN goAppend(acc, name) ELSE acc

nameListFirst(acc, hasNdots, name) ==
    IF hasNdots /\ ~avoidDNS(name) THEN goAppend(acc, name) ELSE acc

nameListKeep(fqdn) == ~avoidDNS(fqdn) /\ Len(fqdn) <= MaxNameLen

RECURSIVE nameListSuffixes(_, _, _, _)
nameListSuffixes(acc, name, search, i) ==
    IF i > Len(search) THEN acc
    ELSE LET fqdn == name \o search[i] IN
         nameListSuffixes(IF nameListKeep(fqdn) THEN goAppend(acc, fqdn) ELSE acc,
                          name, search, i + 1)

nameListLast(acc, hasNdots, name) ==
    IF ~hasNdots /\ ~avoidDNS(name) THEN goAppend(acc, name) ELSE acc

\* Mutant: an unrooted name of exactly MaxNameLen characters is accepted.
nameListTooLongStrict(l, rooted) == l > MaxNameLen

nameListTooLong(l, rooted) == l > MaxNameLen \/ (l = MaxNameLen /\ ~rooted)

\* Mutant: a rooted name is returned without the exclusion check.
nameListRootedUnchecked(name) == List(<<name>>)

nameListRooted(name) == IF avoidDNS(name) THEN Nil ELSE List(<<name>>)

nameList(c, name) ==
    LET l == Len(name)
        rooted == l > 0 /\ name[l] = Dot
    IN  IF nameListTooLong(l, rooted) THEN Nil
        ELSE IF rooted THEN nameListRooted(name)
        ELSE LET hasNdots == stringsCount(name, Dot) >= c.ndots
                 rname == name \o <<Dot>>
             IN  nameListLast(
                     nameListSuffixes(nameListFirst(nameListMake, hasNdots, rname),
                                      rname, c.search, 1),
                     hasNdots, rname)

\* ------------------------------------------- inputs of the pure functions

Pad(n) == [i \in 1..n |-> "a"]

SeqsUpTo(S, n) == UNION { [1..k -> S] : k \in 0..n }

ShortNames ==
    { <<>>,
      <<"h","o","s","t">>,
      <<"a",".","b">>,
      <<"a",".","b",".","c">>,
      <<"h","o","s","t",".">>,
      <<".">>,
      <<"x",".","o","n","i","o","n">>,
      <<"x",".","O","N","I","O","N">>,
      <<"x",".","o","N","i","O","n",".">>,
      <<"x",".","o","n","i","o","n",".">>,
      <<"o","n","i","o","n">>,
      <<"o","n","i","o","n",".">>,
      <<"a",".","o","n","i","o","n",".","b">> }

LongNames ==
    { Pad(n) : n \in (MaxNameLen - 3)..(MaxNameLen + 1) }
    \cup { Pad(n) \o <<Dot>> : n \in (MaxNameLen - 2)..MaxNameLen }
    \cup { Pad(MaxNameLen - 7) \o onionSuffix \o <<Dot>> }

QNames == ShortNames \cup LongNames

Suffixes ==
    { <<"b",".">>,
      <<"e","x","a","m","p","l","e",".","c","o","m",".">>,
      <<"o","n","i","o","n",".">>,
      <<".">> }

testHostname == <<"h","o","s","t",".","d","o","m","a","i","n",".","l","o","c","a","l">>

HostnameResults ==
    { [hn |-> h, err |-> NoErr] :
        h \in { <<"h","o","s","t",".","l","o","n","g",".","d","o","m","a","i","n",".","l","o","c","a","l">>,
                <<"h","o","s","t",".","l","o","c","a","l">>,
                <<"h","o","s","t">>,
                <<"f","o","o",".">>,
                <<".">>,
                <<"a",".",".">>,
                <<".","a">>,
                <<>>,
                <<"a",".","b",".">> } }
    \cup { [hn |-> testHostname, err |-> "errored"], [hn |-> <<>>, err |-> "errored"] }

\* ------------------------------------- calls of nameList, dnsDefaultSearch

InitName ==
    /\ defaultNS = defaultNSInit
    /\ linesLeft = 0
    /\ line = <<>>
    /\ returned = <<>>
    /\ names = Nil
    /\ dsearch = <<>>
    /\ \/ /\ pc = "callNameList"
          /\ hostname = [hn |-> testHostname, err |-> NoErr]
          /\ qname \in QNames
          /\ conf \in { [newConf EXCEPT !.servers = SharedNS, !.search = s, !.ndots = n] :
                          s \in SeqsUpTo(Suffixes, MaxSearch), n \in 0..MaxNdots }
       \/ /\ pc = "callDefaultSearch"
          /\ hostname \in HostnameResults
          /\ qname = <<>>
          /\ conf = newConf

CallNameList ==
    /\ pc = "callNameList"
    /\ names' = nameList(conf, qname)
    /\ pc' = "nameList"
    /\ UNCHANGED <<defaultNS, hostname, linesLeft, line, conf, returned, qname, dsearch>>

CallDefaultSearch ==
    /\ pc = "callDefaultSearch"
    /\ dsearch' = dnsDefaultSearch(hostname)
    /\ pc' = "defaultSearch"
    /\ UNCHANGED <<defaultNS, hostname, linesLeft, line, conf, returned, qname, names>>

NextName == CallNameList \/ CallDefaultSearch

SpecName == InitName /\ [][NextName]_vars

\* ------------------------------------------------------------- tokenizer

IsSpace(c) == c \in {" ", "\t", "\r", "\n"}

\* The whitespace-delimited fields of a line, in order.
getFields(l) ==
    LET starts == { i \in 1..Len(l) : ~IsSpace(l[i]) /\ (i = 1 \/ IsSpace(l[i - 1])) }
        start(n) == CHOOSE i \in starts : Cardinality({ j \in starts : j < i }) = n - 1
        end(i) == CHOOSE j \in i..Len(l) :
                      /\ \A k \in i..j : ~IsSpace(l[k])
                      /\ (j = Len(l) \/ IsSpace(l[j + 1]))
    IN  [n \in 1..Cardinality(starts) |-> SubSeq(l, start(n), end(start(n)))]

DigitChars == <<"0","1","2","3","4","5","6","7","8","9">>

IsDigit(c) == \E i \in 1..10 : DigitChars[i] = c

digitVal(c) == (CHOOSE i \in 1..10 : DigitChars[i] = c) - 1

\* The decimal number s starts with; 0 when it starts with none.
RECURSIVE dtoiFrom(_, _, _)
dtoiFrom(s, i, n) ==
    IF i <= Len(s) /\ IsDigit(s[i]) THEN dtoiFrom(s, i + 1, n * 10 + digitVal(s[i]))
    ELSE n

dtoi(s) == dtoiFrom(s, 1, 0)

\* ------------------------------------------------- the lines of the file

ValidAddrs == { <<"8",".","8",".","8",".","8">>, <<":",":","1">> }

\* netip.ParseAddr(s) returns no error.
parseAddrOK(s) == s \in ValidAddrs

\* net.JoinHostPort(host, port)
joinHostPort(host, port) ==
    IF \E i \in 1..Len(host) : host[i] = ":"
    THEN <<"[">> \o host \o <<"]", ":">> \o port
    ELSE host \o <<":">> \o port

port53 == <<"5", "3">>

kwNameserver == <<"n","a","m","e","s","e","r","v","e","r">>
kwDomain == <<"d","o","m","a","i","n">>
kwSearch == <<"s","e","a","r","c","h">>
kwOptions == <<"o","p","t","i","o","n","s">>
kwLookup == <<"l","o","o","k","u","p">>

optNdots == <<"n","d","o","t","s",":">>
optTimeout == <<"t","i","m","e","o","u","t",":">>
optAttempts == <<"a","t","t","e","m","p","t","s",":">>
optRotate == <<"r","o","t","a","t","e">>
optSingleRequest == <<"s","i","n","g","l","e","-","r","e","q","u","e","s","t">>
optSingleRequestReopen == <<"s","i","n","g","l","e","-","r","e","q","u","e","s","t","-","r","e","o","p","e","n">>
optUseVC == <<"u","s","e","-","v","c">>
optUsevc == <<"u","s","e","v","c">>
optTcp == <<"t","c","p">>
optTrustAD == <<"t","r","u","s","t","-","a","d">>
optEdns0 == <<"e","d","n","s","0">>
optNoReload == <<"n","o","-","r","e","l","o","a","d">>

lineEmpty == <<>>
lineComment == <<"#","c">>
lineSpaceComment == <<" ",";","c">>
lineSemicolon == <<";","c">>
lineTabComment == <<"\t","#","c">>
lineBlank == <<" ","\t">>
lineNameserver4 == <<"n","a","m","e","s","e","r","v","e","r"," ","8",".","8",".","8",".","8">>
lineNameserver6 == <<"n","a","m","e","s","e","r","v","e","r","\t",":",":","1">>
lineNameserverName == <<"n","a","m","e","s","e","r","v","e","r"," ","n","s">>
lineNameserverNoArg == <<"n","a","m","e","s","e","r","v","e","r">>
lineDomain == <<"d","o","m","a","i","n"," ","a",".","b">>
lineDomainNoArg == <<"d","o","m","a","i","n">>
lineSearch == <<"s","e","a","r","c","h"," ","a"," ","."," ","b",".">>
lineSearchDot == <<"s","e","a","r","c","h"," ",".">>
lineSearchNoArg == <<"s","e","a","r","c","h">>
lineOptionsLow == <<"o","p","t","i","o","n","s"," ","n","d","o","t","s",":","-","1"," ","t","i","m","e","o","u","t",":","0"," ","a","t","t","e","m","p","t","s",":","0"," ","r","o","t","a","t","e">>
lineOptionsHigh == <<"o","p","t","i","o","n","s"," ","n","d","o","t","s",":","1","6"," ","t","i","m","e","o","u","t",":","9"," ","a","t","t","e","m","p","t","s",":","3"," ","b","o","g","u","s">>
lineOptionsFlags == <<"o","p","t","i","o","n","s"," ","s","i","n","g","l","e","-","r","e","q","u","e","s","t"," ","u","s","e","-","v","c"," ","t","r","u","s","t","-","a","d"," ","n","o","-","r","e","l","o","a","d"," ","e","d","n","s","0">>
lineOptionsAlt == <<"o","p","t","i","o","n","s"," ","n","d","o","t","s",":","2"," ","s","i","n","g","l","e","-","r","e","q","u","e","s","t","-","r","e","o","p","e","n"," ","u","s","e","v","c"," ","t","c","p">>
lineLookup == <<"l","o","o","k","u","p"," ","f","i","l","e"," ","b","i","n","d">>
lineUnknown == <<"b","o","g","u","s"," ","x">>

Lines ==
    { lineEmpty, lineComment, lineSpaceComment, lineNameserver4, lineNameserver6,
      lineNameserverName, lineNameserverNoArg, lineDomain, lineDomainNoArg,
      lineSearch, lineSearchDot, lineSearchNoArg, lineOptionsLow, lineOptionsHigh,
      lineOptionsFlags, lineOptionsAlt, lineLookup, lineUnknown,
      lineSemicolon, lineTabComment, lineBlank }

Hostnames ==
    { [hn |-> testHostname, err |-> NoErr],
      [hn |-> <<"h","o","s","t">>, err |-> NoErr],
      [hn |-> testHostname, err |-> "errored"] }

\* ---------------------------------------------------------- dnsReadConfig

\* case "nameserver"
addNameserver(c, f) ==
    IF Len(f) > 1 /\ Len(c.servers.elems) < MaxServers /\ parseAddrOK(f[2])
    THEN [c EXCEPT !.servers = Heap(Append(c.servers.elems, joinHostPort(f[2], port53)))]
    ELSE c

\* Mutant: a domain line appends to the search list.
setDomainAppend(c, f) ==
    IF Len(f) > 1 THEN [c EXCEPT !.search = Append(c.search, ensureRooted(f[2]))] ELSE c

\* case "domain"
setDomain(c, f) ==
    IF Len(f) > 1 THEN [c EXCEPT !.search = << ensureRooted(f[2]) >>] ELSE c

RECURSIVE searchLoop(_, _, _)
searchLoop(acc, f, i) ==
    IF i > Len(f) THEN acc
    ELSE LET name == ensureRooted(f[i]) IN
         searchLoop(IF name = <<Dot>> THEN acc ELSE Append(acc, name), f, i + 1)

\* case "search"
setSearch(c, f) == [c EXCEPT !.search = searchLoop(<<>>, f, 2)]

\* Mutant: ndots has no upper clamp.
clampNdotsNoUpper(n) == IF n < 0 THEN 0 ELSE n

clampNdots(n) == IF n < 0 THEN 0 ELSE IF n > MaxNdotsOpt THEN MaxNdotsOpt ELSE n

clampTimeout(n) == IF n < 1 THEN 1 ELSE n

clampAttempts(n) == IF n < 1 THEN 1 ELSE n

\* one token of an "options" line
setOption(c, s) ==
    IF hasPrefix(s, optNdots)
    THEN [c EXCEPT !.ndots = clampNdots(dtoi(SubSeq(s, 7, Len(s))))]
    ELSE IF hasPrefix(s, optTimeout)
    THEN [c EXCEPT !.timeout = clampTimeout(dtoi(SubSeq(s, 9, Len(s))))]
    ELSE IF hasPrefix(s, optAttempts)
    THEN [c EXCEPT !.attempts = clampAttempts(dtoi(SubSeq(s, 10, Len(s))))]
    ELSE IF s = optRotate THEN [c EXCEPT !.rotate = TRUE]
    ELSE IF s = optSingleRequest \/ s = optSingleRequestReopen
    THEN [c EXCEPT !.singleRequest = TRUE]
    ELSE IF s = optUseVC \/ s = optUsevc \/ s = optTcp THEN [c EXCEPT !.useTCP = TRUE]
    ELSE IF s = optTrustAD THEN [c EXCEPT !.trustAD = TRUE]
    ELSE IF s = optEdns0 THEN c
    ELSE IF s = optNoReload THEN [c EXCEPT !.noReload = TRUE]
    ELSE [c EXCEPT !.unknownOpt = TRUE]

\* case "options"
RECURSIVE setOptions(_, _, _)
setOptions(c, f, i) ==
    IF i > Len(f) THEN c ELSE setOptions(setOption(c, f[i]), f, i + 1)

\* case "lookup"
setLookup(c, f) == [c EXCEPT !.lookup = SubSeq(f, 2, Len(f))]

\* Mutant: an unknown keyword is skipped silently.
unknownKeywordIgnored(c, f) == c

\* default:
unknownKeyword(c, f) == [c EXCEPT !.unknownOpt = TRUE]

\* Mutant: only '#' starts a comment.
isCommentHashOnly(l) == Len(l) > 0 /\ l[1] = "#"

isComment(l) == Len(l) > 0 /\ (l[1] = ";" \/ l[1] = "#")

\* The body of the loop over the lines.
processLine(c, l) ==
    IF isComment(l) THEN c
    ELSE LET f == getFields(l) IN
         IF Len(f) < 1 THEN c
         ELSE IF f[1] = kwNameserver THEN addNameserver(c, f)
         ELSE IF f[1] = kwDomain THEN setDomain(c, f)
         ELSE IF f[1] = kwSearch THEN setSearch(c, f)
         ELSE IF f[1] = kwOptions THEN setOptions(c, f, 2)
         ELSE IF f[1] = kwLookup THEN setLookup(c, f)
         ELSE unknownKeyword(c, f)

\* open(filename) failed
openFailed(c, h, e) ==
    [c EXCEPT !.servers = SharedNS, !.search = dnsDefaultSearch(h), !.err = e]

\* Mutant: a stat failure records the error and sets no defaults.
statFailedNoDefaults(c, h, e) == [c EXCEPT !.err = e]

\* file.file.Stat() failed
statFailed(c, h, e) ==
    [c EXCEPT !.servers = SharedNS, !.search = dnsDefaultSearch(h), !.err = e]

\* after the last line
defaultServers(c) ==
    IF Len(c.servers.elems) = 0 THEN [c EXCEPT !.servers = SharedNS] ELSE c

defaultSearch(c, h) ==
    IF Len(c.search) = 0 THEN [c EXCEPT !.search = dnsDefaultSearch(h)] ELSE c

Init ==
    /\ defaultNS = defaultNSInit
    /\ hostname \in Hostnames
    /\ linesLeft = MaxLines
    /\ pc = "start"
    /\ line = <<>>
    /\ conf = newConf
    /\ returned = <<>>
    /\ qname = <<>>
    /\ names = Nil
    /\ dsearch = <<>>

Open ==
    /\ pc = "start"
    /\ conf' = newConf
    /\ pc' = "opened"
    /\ UNCHANGED <<defaultNS, hostname, linesLeft, line, returned, qname, names, dsearch>>

OpenFail ==
    /\ pc = "start"
    /\ conf' = openFailed(newConf, hostname, "ENOENT")
    /\ pc' = "done"
    /\ UNCHANGED <<defaultNS, hostname, linesLeft, line, returned, qname, names, dsearch>>

Stat ==
    /\ pc = "opened"
    /\ conf' = [conf EXCEPT !.mtime = 1]
    /\ pc' = "loop"
    /\ UNCHANGED <<defaultNS, hostname, linesLeft, line, returned, qname, names, dsearch>>

StatFail ==
    /\ pc = "opened"
    /\ conf' = statFailed(conf, hostname, "EIO")
    /\ pc' = "done"
    /\ UNCHANGED <<defaultNS, hostname, linesLeft, line, returned, qname, names, dsearch>>

ReadLine ==
    /\ pc = "loop"
    /\ linesLeft > 0
    /\ \E l \in Lines :
          /\ line' = l
          /\ conf' = processLine(conf, l)
    /\ linesLeft' = linesLeft - 1
    /\ UNCHANGED <<defaultNS, hostname, pc, returned, qname, names, dsearch>>

EndOfFile ==
    /\ pc = "loop"
    /\ conf' = defaultSearch(defaultServers(conf), hostname)
    /\ pc' = "done"
    /\ UNCHANGED <<defaultNS, hostname, linesLeft, line, returned, qname, names, dsearch>>

Next == Open \/ OpenFail \/ Stat \/ StatFail \/ ReadLine \/ EndOfFile

Spec == Init /\ [][Next]_vars

\* ------------------------------------------ callers of the returned records

\* dnsReadConfig returns conf to its caller, who may read again.
Return ==
    /\ pc = "done"
    /\ Len(returned) < MaxReads
    /\ returned' = Append(returned, conf)
    /\ pc' = IF Len(returned) + 1 < MaxReads THEN "start" ELSE "end"
    /\ conf' = newConf
    /\ line' = <<>>
    /\ linesLeft' = ShareLines
    /\ UNCHANGED <<defaultNS, hostname, qname, names, dsearch>>

written == <<"x">>

\* A caller assigns to an element of record.Servers.
WriteServers ==
    \E i \in 1..Len(returned) :
        \E k \in 1..Len(Elems(defaultNS, returned[i].servers)) :
            /\ Elems(defaultNS, returned[i].servers)[k] # written
            /\ IF returned[i].servers.base = "defaultNS"
               THEN /\ defaultNS' = [defaultNS EXCEPT ![k] = written]
                    /\ UNCHANGED returned
               ELSE /\ returned' = [returned EXCEPT ![i].servers.elems[k] = written]
                    /\ UNCHANGED defaultNS
            /\ UNCHANGED <<hostname, linesLeft, pc, line, conf, qname, names, dsearch>>

\* A caller assigns to an element of record.Search.
WriteSearch ==
    \E i \in 1..Len(returned) :
        \E k \in 1..Len(returned[i].search) :
            /\ returned[i].search[k] # written
            /\ returned' = [returned EXCEPT ![i].search[k] = written]
            /\ UNCHANGED <<defaultNS, hostname, linesLeft, pc, line, conf, qname, names, dsearch>>

\* A caller assigns to an element of record.Lookup.
WriteLookup ==
    \E i \in 1..Len(returned) :
        \E k \in 1..Len(returned[i].lookup) :
            /\ returned[i].lookup[k] # written
            /\ returned' = [returned EXCEPT ![i].lookup[k] = written]
            /\ UNCHANGED <<defaultNS, hostname, linesLeft, pc, line, conf, qname, names, dsearch>>

\* A caller assigns to a scalar field, record.Rotate.
WriteRotate ==
    \E i \in 1..Len(returned) :
        /\ ~returned[i].rotate
        /\ returned' = [returned EXCEPT ![i].rotate = TRUE]
        /\ UNCHANGED <<defaultNS, hostname, linesLeft, pc, line, conf, qname, names, dsearch>>

InitShare ==
    /\ defaultNS = defaultNSInit
    /\ hostname \in Hostnames
    /\ linesLeft = ShareLines
    /\ pc = "start"
    /\ line = <<>>
    /\ conf = newConf
    /\ returned = <<>>
    /\ qname = <<>>
    /\ names = Nil
    /\ dsearch = <<>>

NextShare ==
    \/ Open \/ OpenFail \/ Stat \/ StatFail \/ ReadLine \/ EndOfFile
    \/ Return \/ WriteServers \/ WriteSearch \/ WriteLookup \/ WriteRotate

SpecShare == InitShare /\ [][NextShare]_vars

\* --------------------------------------------------- claims on nameList

IsRooted(n) == Len(n) > 0 /\ n[Len(n)] = Dot

\* The length check of nameList's first step rejects n.
RejectedByLength(n) == Len(n) > MaxNameLen \/ (Len(n) = MaxNameLen /\ ~IsRooted(n))

Fold(n) == [i \in 1..Len(n) |-> lowerASCII(n[i])]

\* n, ignoring a trailing dot, ends in ".onion" compared case-insensitively.
EndsInOnion(n) ==
    LET body == IF IsRooted(n) THEN SubSeq(n, 1, Len(n) - 1) ELSE n IN
    /\ Len(body) >= Len(onionSuffix)
    /\ Fold(SubSeq(body, Len(body) - Len(onionSuffix) + 1, Len(body))) = onionSuffix

DotCount(n) == LET IsDot(c) == c = Dot IN Len(SelectSeq(n, IsDot))

ExpectedNames(n, c) ==
    LET bare == n \o <<Dot>>
        cands == [i \in 1..Len(c.search) |-> bare \o c.search[i]]
        Kept(f) == ~avoidDNS(f) /\ Len(f) <= MaxNameLen
        first == IF DotCount(n) >= c.ndots /\ ~avoidDNS(bare) THEN <<bare>> ELSE <<>>
        last == IF DotCount(n) < c.ndots /\ ~avoidDNS(bare) THEN <<bare>> ELSE <<>>
    IN  first \o SelectSeq(cands, Kept) \o last

\* C1: for an unrooted name of accepted length nameList returns the bare rooted
\* name first if its dot count is at least ndots and it is not excluded, then
\* name+suffix for each search suffix in order that is not excluded and at most
\* 254 long, then the bare rooted name last if its dot count is below ndots and
\* it is not excluded.
C1_NameListOrder ==
    (pc = "nameList" /\ ~IsRooted(qname) /\ ~RejectedByLength(qname))
        => names = List(ExpectedNames(qname, conf))

C1_Witness ==
    /\ pc = "nameList"
    /\ qname = <<"h","o","s","t">>
    /\ conf.search = << <<"e","x","a","m","p","l","e",".","c","o","m",".">> >>
    /\ conf.ndots = 2
    /\ names = List(<< <<"h","o","s","t",".","e","x","a","m","p","l","e",".","c","o","m",".">>,
                       <<"h","o","s","t",".">> >>)

\* C2: no name nameList returns is longer than 254 characters, and nameList
\* returns nil when the input is longer than 254 characters or is exactly 254
\* long without a trailing dot.
C2_NameLength ==
    pc = "nameList" =>
        /\ \A i \in 1..Len(names.list) : Len(names.list[i]) <= MaxNameLen
        /\ (Len(qname) > MaxNameLen \/ (Len(qname) = MaxNameLen /\ ~IsRooted(qname)))
               => names.nil

\* A suffixed candidate was dropped for its length while the bare name was kept.
C2_Witness ==
    /\ pc = "nameList"
    /\ Len(qname) = MaxNameLen - 1
    /\ conf.search # <<>>
    /\ ~names.nil
    /\ names.list = << qname \o <<Dot>> >>

\* C3: for a rooted name of accepted length nameList ignores search and ndots:
\* it returns nil if the name, ignoring the trailing dot, ends in ".onion"
\* compared case-insensitively, and otherwise the list holding just the name.
C3_RootedName ==
    (pc = "nameList" /\ IsRooted(qname) /\ ~RejectedByLength(qname))
        => names = IF EndsInOnion(qname) THEN Nil ELSE List(<<qname>>)

C3_Witness ==
    /\ pc = "nameList"
    /\ qname = <<"x",".","o","N","i","O","n",".">>
    /\ conf.search # <<>>
    /\ names = Nil

\* C9 as stated: nameList returns nil only when the length check rejects the name.
C9_NilOnlyOnLength ==
    pc = "nameList" => (names.nil => RejectedByLength(qname))

\* C9, amended: nameList returns nil exactly when the length check rejects the
\* name or the name is rooted and excluded; for every other name it returns a
\* list, possibly empty.
C9_NilOnlyOnLengthOrRootedExcluded ==
    pc = "nameList" =>
        (names.nil <=> (RejectedByLength(qname) \/ (IsRooted(qname) /\ avoidDNS(qname))))

\* An unrooted name all of whose candidates were filtered out: an empty list, not nil.
C9_Witness ==
    /\ pc = "nameList"
    /\ ~IsRooted(qname)
    /\ ~RejectedByLength(qname)
    /\ ~names.nil
    /\ names.list = <<>>

\* ------------------------------------------- claims on dnsDefaultSearch

\* The hostname has no dot other than a final one.
NoInteriorDot(hn) == \A i \in 1..Len(hn) : hn[i] = Dot => i = Len(hn)

AfterFirstDot(hn) ==
    LET k == CHOOSE i \in 1..Len(hn) : hn[i] = Dot /\ \A j \in 1..(i - 1) : hn[j] # Dot
    IN  SubSeq(hn, k + 1, Len(hn))

RootedForm(n) == IF IsRooted(n) THEN n ELSE n \o <<Dot>>

\* C6: dnsDefaultSearch returns an empty list when the hostname lookup fails or
\* the hostname has no dot other than a final one; otherwise exactly one entry,
\* the rooted form of everything after the first dot; never the empty string.
C6_DefaultSearch ==
    pc = "defaultSearch" =>
        /\ (hostname.err # NoErr \/ NoInteriorDot(hostname.hn)) => dsearch = <<>>
        /\ (hostname.err = NoErr /\ ~NoInteriorDot(hostname.hn))
               => dsearch = << RootedForm(AfterFirstDot(hostname.hn)) >>
        /\ \A i \in 1..Len(dsearch) : dsearch[i] # <<>>

C6_Witness ==
    /\ pc = "defaultSearch"
    /\ hostname = [hn |-> <<"h","o","s","t",".","l","o","n","g",".","d","o","m","a","i","n",".","l","o","c","a","l">>, err |-> NoErr]
    /\ dsearch = << <<"l","o","n","g",".","d","o","m","a","i","n",".","l","o","c","a","l",".">> >>

\* ----------------------------------------------- claims on dnsReadConfig

\* The fields of a line the loop acts on: none for a comment.
Fields(l) == IF isComment(l) THEN <<>> ELSE getFields(l)

\* The step reads one line of the file and processes it.
LineRead == linesLeft' = linesLeft - 1

\* C4: after dnsReadConfig has processed any sequence of lines, ndots is in
\* 0..15, timeout is at least one second, attempts is at least 1, there are at
\* most three servers and every search entry ends with a dot.
C4_RecordInvariants ==
    pc = "done" =>
        /\ conf.ndots \in 0..15
        /\ conf.timeout >= 1
        /\ conf.attempts >= 1
        /\ Len(Elems(defaultNS, conf.servers)) <= 3
        /\ \A i \in 1..Len(conf.search) :
               Len(conf.search[i]) > 0 /\ conf.search[i][Len(conf.search[i])] = Dot

\* Three servers were taken and the fourth nameserver line was dropped.
C4_Witness ==
    /\ pc = "done"
    /\ linesLeft = MaxLines - 4
    /\ line = lineNameserver4
    /\ conf.servers = Heap(<< <<"[",":",":","1","]",":","5","3">>, <<"[",":",":","1","]",":","5","3">>, <<"[",":",":","1","]",":","5","3">> >>)

FailedRecord(h, e) ==
    [ servers |-> << <<"1","2","7",".","0",".","0",".","1",":","5","3">>, <<"[",":",":","1","]",":","5","3">> >>,
      search |-> dnsDefaultSearch(h), ndots |-> 1, timeout |-> 5, attempts |-> 2,
      rotate |-> FALSE, unknownOpt |-> FALSE, lookup |-> <<>>, err |-> e, mtime |-> 0,
      singleRequest |-> FALSE, useTCP |-> FALSE, trustAD |-> FALSE, noReload |-> FALSE ]

\* C5: when the open fails, or the stat after a successful open fails,
\* dnsReadConfig processes no line and returns the record with the default
\* server pair, the default search of the hostname, the failure in err, and
\* every other field at its default.
C5_FailedRead ==
    [][ /\ (pc = "start" /\ pc' = "done")
            => /\ [conf' EXCEPT !.servers = Elems(defaultNS', conf'.servers)]
                      = FailedRecord(hostname, "ENOENT")
               /\ line' = <<>> /\ linesLeft' = MaxLines
        /\ (pc = "opened" /\ pc' = "done")
            => /\ [conf' EXCEPT !.servers = Elems(defaultNS', conf'.servers)]
                      = FailedRecord(hostname, "EIO")
               /\ line' = <<>> /\ linesLeft' = MaxLines
        /\ (pc = "start" /\ pc' # "done") => pc' = "opened"
        /\ (pc = "opened" /\ pc' # "done") => (pc' = "loop" /\ conf'.err = NoErr) ]_vars

C5_Witness ==
    /\ pc = "done"
    /\ conf.err = "EIO"
    /\ hostname.hn = testHostname /\ hostname.err = NoErr
    /\ conf.search = << <<"d","o","m","a","i","n",".","l","o","c","a","l",".">> >>
    /\ conf.servers = SharedNS

IsDomainLine(l) == Len(Fields(l)) >= 2 /\ Fields(l)[1] = kwDomain

IsSearchLine(l) == Len(Fields(l)) >= 1 /\ Fields(l)[1] = kwSearch

\* The rooted forms of the arguments of a search line, every "." skipped.
SearchArgs(l) ==
    LET f == Fields(l)
        args == [i \in 1..(Len(f) - 1) |-> f[i + 1]]
        NotDot(a) == a # <<Dot>>
        kept == SelectSeq(args, NotDot)
    IN  [i \in 1..Len(kept) |-> RootedForm(kept[i])]

\* C7: the search list is set by the last search line or domain line with an
\* argument alone: a domain line gives the single rooted argument, a search
\* line the rooted forms of its arguments in order with every "." skipped, any
\* other line leaves the list as it is; a list that is empty after the last
\* line becomes the default search.
C7_LastSearchLineWins ==
    [][ /\ (pc = "opened" /\ pc' = "loop") => conf'.search = <<>>
        /\ LineRead =>
              conf'.search =
                  IF IsDomainLine(line') THEN << RootedForm(Fields(line')[2]) >>
                  ELSE IF IsSearchLine(line') THEN SearchArgs(line')
                  ELSE conf.search
        /\ (pc = "loop" /\ pc' = "done") =>
              conf'.search = IF conf.search = <<>> THEN dnsDefaultSearch(hostname)
                             ELSE conf.search ]_vars

\* The second line of the file was a search line: it alone set the list, and
\* its "." was skipped.
C7_Witness ==
    /\ pc = "done"
    /\ linesLeft = MaxLines - 2
    /\ line = lineSearch
    /\ conf.search = << <<"a",".">>, <<"b",".">> >>
    /\ conf.unknownOpt = FALSE /\ conf.servers = SharedNS /\ conf.lookup = <<>>
    /\ conf.ndots = 1 /\ conf.timeout = 5 /\ conf.rotate = FALSE
    /\ conf.singleRequest = FALSE

KnownKeywords == { kwNameserver, kwDomain, kwSearch, kwOptions, kwLookup }

UnknownKeywordLine(l) == Len(Fields(l)) >= 1 /\ Fields(l)[1] \notin KnownKeywords

NoArgumentLine(l) ==
    Len(Fields(l)) = 1 /\ Fields(l)[1] \in { kwNameserver, kwDomain, kwSearch }

View(ns, r) == [r EXCEPT !.servers = Elems(ns, r.servers)]

\* C10: records returned by separate reads share no mutable state: a write to
\* a field or list element of one changes no other returned record, and the
\* record a later read produces is what it would be without the write.
C10_NoSharedState ==
    [][ /\ \A i, j \in 1..Len(returned) :
              (i # j /\ Len(returned') = Len(returned)) =>
                  \/ View(defaultNS', returned'[i]) = View(defaultNS, returned[i])
                  \/ View(defaultNS', returned'[j]) = View(defaultNS, returned[j])
        /\ (pc # "done" /\ pc' = "done" /\ conf'.servers.base = "defaultNS")
              => Elems(defaultNS', conf'.servers) = defaultNSInit ]_vars

\* ---------------------------------------------- claims on comment lines

IsBlank(c) == c = " " \/ c = "\t"

IsMarker(c) == c = ";" \/ c = "#"

\* The first character of l is a comment marker.
MarkerFirst(l) == Len(l) > 0 /\ IsMarker(l[1])

\* The first non-space character of l is a comment marker, after spaces or tabs.
MarkerAfterBlanks(l) ==
    \E k \in 2..Len(l) : IsMarker(l[k]) /\ \A j \in 1..(k - 1) : IsBlank(l[j])

\* l is empty or holds spaces and tabs only.
BlankLine(l) == \A k \in 1..Len(l) : IsBlank(l[k])

====
